---- MODULE Spec2Model ----
(***************************************************************************)
(* NimbusLance backend: InvoiceController / InvoiceService / PdfService    *)
(* (apps/backend/src/invoice, apps/backend/src/pdf), ClientService,        *)
(* ProjectService and AuthService, over the Invoice, Client, Project and   *)
(* User tables of the Prisma schema.                                       *)
(*                                                                         *)
(* JavaScript objects (request bodies, DTOs, Prisma "data" arguments) are  *)
(* functions whose DOMAIN is the set of properties present; a property     *)
(* that is undefined is simply not in the DOMAIN.  Money is exact: the     *)
(* amounts used are those for which amountHT * (1 + tva / 100) is an       *)
(* integer, so the double arithmetic of the code is exact on them.         *)
(***************************************************************************)
EXTENDS Integers, Sequences, FiniteSets, TLC

VARIABLES
    invoices,   \* table Invoice: id -> row
    nextId,     \* next identifier handed out by @default(uuid())
    users,      \* table User: id -> row
    clients,    \* table Client: id -> row
    projects,   \* table Project: id -> row
    dirExists,  \* whether the directory <backend>/invoices exists
    files,      \* files of that directory: path -> content
    pending,    \* write streams opened by PdfService.generate, not yet flushed
    inflight,   \* create requests suspended at the await of the pdfUrl update
    last,       \* the last response sent (or the last process event)
    ops         \* number of requests received that write (create, update, remove, signup): the clock

vars == <<invoices, nextId, users, clients, projects, dirExists, files, pending,
          inflight, last, ops>>

---------------------------------------------------------------------------
(* Bounds and input domains *)

\* the runs hold at most MaxOps create, update, remove and signup requests;
\* the requests that write nothing (findAll, findOne, signin, PATCH
\* :id/status) are free
MaxOps == 2

Users == {"u1", "u2"}
AmountsHT == {0, 1000}
Tvas == {0, 20}
Statuses == {"DRAFT", "SENT", "PAID", "OVERDUE"}
InvoiceIds == 1 .. MaxOps   \* the ids a request may name
ClientIds == <<"c1", "c2">>    \* the identifiers of clients, in the order given out
ProjectIds == <<"p1", "p2">>   \* the identifiers of projects, in the order given out
UserIds == <<"u1", "u2", "u3">>   \* the identifiers of users, in the order given out
Emails == {"a@x", "b@x", "c@x"}
Passwords == {"pw1", "pw2"}
CrmClientIds == {"c1", "c2"}   \* the client ids a request may name
CrmProjectIds == {"p1", "p2"}  \* the project ids a request may name

NullStr == "null"       \* SQL NULL in a TEXT column
NullPath == <<>>        \* SQL NULL in the pdfUrl column

EmptyObj == [k \in {} |-> 0]

---------------------------------------------------------------------------
(* Objects *)

Has(o, k) == k \in DOMAIN o

\* { ...a, ...b }
Spread(a, b) ==
    [k \in DOMAIN a \cup DOMAIN b |-> IF k \in DOMAIN b THEN b[k] ELSE a[k]]

\* a ?? d applied to the property k of o
OrElse(o, k, d) == IF Has(o, k) THEN o[k] ELSE d

---------------------------------------------------------------------------
(* Input validation: main.ts installs ValidationPipe({ whitelist: true }),  *)
(* which strips every property of the body that has no decorator in the DTO *)

\* the decorated properties of CreateInvoiceDto (UpdateInvoiceDto is its PartialType)
DtoFields == {"title", "description", "clientId", "projectId", "amountHT", "tva"}

\* Whitelist of a ValidationPipe without the whitelist option: nothing is stripped
Whitelist_None(body) == body

Whitelist(body) == [k \in DOMAIN body \cap DtoFields |-> body[k]]

\* a property value that is not a JSON number (a string, a boolean, an
\* object), and one that is not a JSON string
NotANumber == -999
NotAString == "[object Object]"

\* @IsNumber(), @IsString()
IsNumber(v) == v # NotANumber
IsString(v) == v # NotAString

\* the properties without @IsOptional(), those under @IsNumber() and those
\* under @IsString()
RequiredFields == {"title", "clientId", "amountHT"}
NumberFields == {"amountHT", "tva"}
StringFields == {"title", "description", "clientId", "projectId"}

\* the properties of the body that class-validator rejects; with PartialType
\* (partial) no property is required
ValidationErrors(body, partial) ==
         {k \in RequiredFields : ~partial /\ k \notin DOMAIN body}
    \cup {k \in DOMAIN body \cap NumberFields : ~IsNumber(body[k])}
    \cup {k \in DOMAIN body \cap StringFields : ~IsString(body[k])}

---------------------------------------------------------------------------
(* Request bodies.  Each family varies a few properties of a base body.    *)

BaseCreate == [title |-> "A", clientId |-> "c1", amountHT |-> 1000]

CreateBodies ==
       { [title |-> "A", clientId |-> "c1", amountHT |-> h] : h \in AmountsHT }
  \cup { [title |-> "A", clientId |-> "c1", amountHT |-> 1000, tva |-> v] : v \in Tvas }
  \cup { Spread(BaseCreate, [title |-> "B"]),
         Spread(BaseCreate, [description |-> "D"]),
         Spread(BaseCreate, [projectId |-> "p1"]),
         Spread(BaseCreate, [clientId |-> "c9"]),
         Spread(BaseCreate, [amountTTC |-> 1]),
         Spread(BaseCreate, [status |-> "SENT"]),
         Spread(BaseCreate, [userId |-> "u2"]) }

\* the create bodies that differ by their references: to a client and a
\* project that exist (c1, p1) or do not (c9, p9)
RefBodies ==
    { BaseCreate,
      Spread(BaseCreate, [projectId |-> "p1"]),
      Spread(BaseCreate, [clientId |-> "c9"]),
      Spread(BaseCreate, [projectId |-> "p9"]),
      Spread(BaseCreate, [clientId |-> "c9", projectId |-> "p9"]) }

\* the create bodies that differ by their rate
RateBodies == { Spread(BaseCreate, [tva |-> v]) : v \in Tvas }

UpdateBodies ==
       { [title |-> "B"], [amountHT |-> 500], [tva |-> 10],
         [amountHT |-> 500, tva |-> 10],
         EmptyObj,
         [description |-> "D"],
         [projectId |-> "p1"],
         [clientId |-> "c9"],
         [amountTTC |-> 1],
         [status |-> "PAID"],
         [userId |-> "u2"] }

\* bodies that are malformed: a required property missing, an amount that
\* is not a number, a status outside the enum, a negative amount
MalformedBodies ==
    { [clientId |-> "c1", amountHT |-> 1000],
      [title |-> "A", amountHT |-> 1000],
      [title |-> "A", clientId |-> "c1"],
      Spread(BaseCreate, [amountHT |-> NotANumber]),
      Spread(BaseCreate, [status |-> "BOGUS"]),
      Spread(BaseCreate, [amountHT |-> -1000]) }

MalformedUpdateBodies ==
    { [amountHT |-> NotANumber], [status |-> "BOGUS"], [amountHT |-> -500] }

ClientCreateBodies == { [name |-> "N"], [name |-> "N", userId |-> "u1"] }

ClientUpdateBodies == { [name |-> "M"], [userId |-> "u2"] }

ProjectCreateBodies ==
    { [title |-> "T", clientId |-> "c1"], [title |-> "T", clientId |-> "c9"] }

ProjectUpdateBodies == { [title |-> "U"], [clientId |-> "c2"], [userId |-> "u2"] }

---------------------------------------------------------------------------
(* Tax *)

\* amountHT * (1 + tva / 100)
AmountTTC(amountHT, tva) == (amountHT * (100 + tva)) \div 100

---------------------------------------------------------------------------
(* Persistence: the Invoice table and its foreign keys *)

\* the column defaults of a new row
NewRow(id, now) ==
    [id |-> id, description |-> NullStr, status |-> "DRAFT",
     projectId |-> NullStr, tva |-> 20, pdfUrl |-> NullPath, createdAt |-> now]

\* FkOk without Invoice_projectId_fkey: the project of a row is not checked
FkOk_ClientOnly(row) ==
    /\ row.clientId \in DOMAIN clients
    /\ row.userId \in Users

\* Invoice_clientId_fkey, Invoice_projectId_fkey, Invoice_userId_fkey
FkOk(row) ==
    /\ row.clientId \in DOMAIN clients
    /\ row.projectId = NullStr \/ row.projectId \in DOMAIN projects
    /\ row.userId \in Users

\* where: { id, userId }
Matches(id, userId) == id \in DOMAIN invoices /\ invoices[id].userId = userId

\* include: { client: true, project: true }
Include(row) ==
    Spread(row, [client |-> clients[row.clientId],
                 project |-> IF row.projectId = NullStr THEN {}
                             ELSE {projects[row.projectId]}])

Without(f, id) == [i \in DOMAIN f \ {id} |-> f[i]]

---------------------------------------------------------------------------
(* Responses *)

Response(op, user, id, kind, rows) ==
    [op |-> op, user |-> user, id |-> id, kind |-> kind, rows |-> rows]

---------------------------------------------------------------------------
(* PdfService *)

\* PdfPath with a file name that carries the time of the call:
\* `invoice-${invoice.id}-${Date.now()}.pdf`
PdfPath_Timestamped(id) == <<"invoices", "invoice-", id, "-", ops, ".pdf">>

\* path.resolve(__dirname, '../../invoices', `invoice-${invoice.id}.pdf`)
PdfPath(id) == <<"invoices", "invoice-", id, ".pdf">>

\* new Date().toLocaleDateString(): the day does not change in the runs modelled
Today == "today"

\* the text PdfService.generate puts in the document
PdfContent(invoice) ==
    [title |-> invoice.title, amountHT |-> invoice.amountHT, tva |-> invoice.tva,
     amountTTC |-> invoice.amountTTC, date |-> Today]

\* generate() opens a write stream, ends the document and returns the path
\* at once: the stream is flushed to the file later (StreamFlush, StreamError)
GenerateStream(invoice) ==
    [path |-> PdfPath(invoice.id), content |-> PdfContent(invoice)]

\* the invoices generate() is applied to when it is exercised on its own
Snapshots ==
    {[id |-> i, title |-> t, amountHT |-> h, tva |-> 20, amountTTC |-> AmountTTC(h, 20)] :
        i \in InvoiceIds, t \in {"A", "B"}, h \in AmountsHT}

\* one call of PdfService.generate(invoice): the stream is opened and the
\* path is returned
Generate(invoice) ==
    /\ ops < MaxOps
    /\ ops' = ops + 1
    /\ pending' = pending \cup {GenerateStream(invoice)}
    /\ last' = Response("generate", "-", invoice.id, "path",
                        <<[pdfUrl |-> PdfPath(invoice.id)]>>)
    /\ UNCHANGED <<users, invoices, nextId, clients, projects, dirExists, files, inflight>>

---------------------------------------------------------------------------
(* InvoiceService.create *)

\* CreateData with "dto.tva || 20" for "dto.tva ?? 20": a rate of 0 is replaced
CreateData_FalsyTva(userId, dto) ==
    LET tva == IF Has(dto, "tva") /\ dto.tva # 0 THEN dto.tva ELSE 20
        amountTTC == AmountTTC(dto.amountHT, tva)
    IN  Spread(dto, [amountTTC |-> amountTTC, tva |-> tva, status |-> "DRAFT",
                     userId |-> userId])

\* the data argument of prisma.invoice.create
CreateData(userId, dto) ==
    LET tva == OrElse(dto, "tva", 20)
        amountTTC == AmountTTC(dto.amountHT, tva)
    IN  Spread(dto, [amountTTC |-> amountTTC, tva |-> tva, status |-> "DRAFT",
                     userId |-> userId])

\* POST /invoices up to the await of prisma.invoice.update: the row is
\* inserted and the PDF generation is started
CreateBegin(userId, body) ==
    LET dto == Whitelist(body)
        invoice == Spread(NewRow(nextId, ops), CreateData(userId, dto))
    IN  /\ ops < MaxOps
        /\ ops' = ops + 1
        /\ IF ValidationErrors(body, FALSE) # {}
           THEN /\ last' = Response("create", userId, 0, "BadRequest", <<>>)
                /\ UNCHANGED <<invoices, nextId, pending, inflight>>
           ELSE IF FkOk(invoice)
           THEN /\ invoices' = (nextId :> invoice) @@ invoices
                /\ nextId' = nextId + 1
                /\ pending' = pending \cup {GenerateStream(invoice)}
                /\ inflight' = inflight \cup
                       {[userId |-> userId, invoice |-> invoice,
                         pdfPath |-> PdfPath(invoice.id)]}
                /\ UNCHANGED last
           ELSE /\ last' = Response("create", userId, 0, "P2003", <<>>)
                /\ UNCHANGED <<invoices, nextId, pending, inflight>>
        /\ UNCHANGED <<users, clients, projects, dirExists, files>>

\* the rest of create: prisma.invoice.update({ where: { id }, data: { pdfUrl } })
\* and the response { ...invoice, pdfUrl }
CreateWriteBack(r) ==
    LET id == r.invoice.id
    IN  /\ r \in inflight
        /\ inflight' = inflight \ {r}
        /\ IF id \in DOMAIN invoices
           THEN /\ invoices' = [invoices EXCEPT ![id].pdfUrl = r.pdfPath]
                /\ last' = Response("create", r.userId, id, "row",
                                    <<Spread(r.invoice, [pdfUrl |-> r.pdfPath])>>)
           ELSE /\ last' = Response("create", r.userId, id, "P2025", <<>>)
                /\ UNCHANGED invoices
        /\ UNCHANGED <<users, nextId, clients, projects, dirExists, files, pending, ops>>

---------------------------------------------------------------------------
(* The write streams *)

\* a stream opened by generate() reaches the disk
StreamFlush(w) ==
    /\ w \in pending
    /\ dirExists
    /\ files' = (w.path :> w.content) @@ files
    /\ pending' = pending \ {w}
    /\ UNCHANGED <<users, invoices, nextId, clients, projects, dirExists, inflight,
                   last, ops>>

\* the directory is missing: the stream emits 'error', nothing listens, and
\* the process dies with its suspended requests and open streams
StreamError(w) ==
    /\ w \in pending
    /\ ~dirExists
    /\ pending' = {}
    /\ inflight' = {}
    /\ last' = Response("crash", "-", 0, "uncaughtException", <<>>)
    /\ UNCHANGED <<users, invoices, nextId, clients, projects, dirExists, files, ops>>

---------------------------------------------------------------------------
(* InvoiceService.findAll, findOne *)

\* the rows of a user, as a set
Owned(userId) == {invoices[i] : i \in {j \in DOMAIN invoices : invoices[j].userId = userId}}

\* the orders in which a query may return the rows of a set
Orders(rows) ==
    {s \in [1 .. Cardinality(rows) -> rows] :
        \A i, j \in 1 .. Cardinality(rows) : i # j => s[i] # s[j]}

\* findMany({ where: { userId }, include }): no orderBy, so the database
\* returns the rows in an order of its choosing
FindAllResults(userId) == Orders({Include(row) : row \in Owned(userId)})

FindAll(userId) ==
    /\ \E rows \in FindAllResults(userId) :
           last' = Response("findAll", userId, 0, "list", rows)
    /\ UNCHANGED <<users, invoices, nextId, clients, projects, dirExists, files,
                   pending, inflight, ops>>

\* findFirst({ where: { id, userId }, include }): the row, or null
FindOneResult(userId, id) ==
    IF Matches(id, userId)
    THEN Response("findOne", userId, id, "row", <<Include(invoices[id])>>)
    ELSE Response("findOne", userId, id, "null", <<>>)

FindOne(userId, id) ==
    /\ last' = FindOneResult(userId, id)
    /\ UNCHANGED <<users, invoices, nextId, clients, projects, dirExists, files,
                   pending, inflight, ops>>

---------------------------------------------------------------------------
(* InvoiceService.update *)

\* UpdateData that fills tva as create does (tva: dto.tva ?? 20), whether or
\* not the DTO carries one
UpdateData_DefaultTva(dto) ==
    LET tva == OrElse(dto, "tva", 20)
    IN  IF Has(dto, "amountHT")
        THEN Spread(dto, [tva |-> tva, amountTTC |-> AmountTTC(dto.amountHT, tva)])
        ELSE Spread(dto, [tva |-> tva])

\* updateData: the DTO, plus amountTTC when the DTO carries amountHT
UpdateData(dto) ==
    IF Has(dto, "amountHT")
    THEN Spread(dto, [amountTTC |-> AmountTTC(dto.amountHT, OrElse(dto, "tva", 20))])
    ELSE dto

\* prisma.invoice.update({ where: { id, userId }, data, include }): throws
\* P2025 when no row matches
Update(userId, id, body) ==
    LET dto == Whitelist(body)
        row == Spread(invoices[id], UpdateData(dto))
    IN  /\ ops < MaxOps
        /\ ops' = ops + 1
        /\ IF ValidationErrors(body, TRUE) # {}
           THEN /\ last' = Response("update", userId, id, "BadRequest", <<>>)
                /\ UNCHANGED invoices
           ELSE IF ~Matches(id, userId)
           THEN /\ last' = Response("update", userId, id, "P2025", <<>>)
                /\ UNCHANGED invoices
           ELSE IF ~FkOk(row)
           THEN /\ last' = Response("update", userId, id, "P2003", <<>>)
                /\ UNCHANGED invoices
           ELSE /\ invoices' = [invoices EXCEPT ![id] = row]
                /\ last' = Response("update", userId, id, "row", <<Include(row)>>)
        /\ UNCHANGED <<users, nextId, clients, projects, dirExists, files, pending,
                       inflight>>

---------------------------------------------------------------------------
(* InvoiceService.remove *)

\* Remove with fs.unlinkSync(invoice.pdfUrl) before the delete, unguarded: a
\* missing file makes the request fail with ENOENT and the row stays
Remove_UnlinkFirst(userId, id) ==
    /\ ops < MaxOps
    /\ ops' = ops + 1
    /\ IF ~Matches(id, userId)
       THEN /\ last' = Response("remove", userId, id, "P2025", <<>>)
            /\ UNCHANGED <<invoices, files>>
       ELSE IF invoices[id].pdfUrl # NullPath /\ invoices[id].pdfUrl \notin DOMAIN files
       THEN /\ last' = Response("remove", userId, id, "ENOENT", <<>>)
            /\ UNCHANGED <<invoices, files>>
       ELSE /\ invoices' = Without(invoices, id)
            /\ files' = Without(files, invoices[id].pdfUrl)
            /\ last' = Response("remove", userId, id, "row", <<invoices[id]>>)
    /\ UNCHANGED <<users, nextId, clients, projects, dirExists, pending, inflight>>

\* prisma.invoice.delete({ where: { id, userId } }): throws P2025 when no row
\* matches; the file of the invoice is left alone
Remove(userId, id) ==
    /\ ops < MaxOps
    /\ ops' = ops + 1
    /\ IF Matches(id, userId)
       THEN /\ invoices' = Without(invoices, id)
            /\ last' = Response("remove", userId, id, "row", <<invoices[id]>>)
       ELSE /\ last' = Response("remove", userId, id, "P2025", <<>>)
            /\ UNCHANGED invoices
    /\ UNCHANGED <<users, nextId, clients, projects, dirExists, files, pending,
                   inflight>>

---------------------------------------------------------------------------
(* ClientService *)

\* the decorated properties of CreateClientDto (UpdateClientDto is its PartialType)
ClientDtoFields == {"name", "email", "phone", "company", "notes"}

ClientWhitelist(body) == [k \in DOMAIN body \cap ClientDtoFields |-> body[k]]

\* the identifier @default(uuid()) gives a new row: one that no row has
FreshId(ids, table) ==
    ids[CHOOSE k \in 1 .. Len(ids) :
            /\ ids[k] \notin DOMAIN table
            /\ \A j \in 1 .. k - 1 : ids[j] \in DOMAIN table]

HasFreshId(ids, table) == \E k \in 1 .. Len(ids) : ids[k] \notin DOMAIN table

\* where: { id, userId } on a table
MatchesIn(table, id, userId) == id \in DOMAIN table /\ table[id].userId = userId

\* orderBy: { createdAt: 'desc' }
NewestFirst(rows) ==
    {s \in Orders(rows) :
        \A j, k \in 1 .. Len(s) : j < k => s[j].createdAt >= s[k].createdAt}

\* { count } of updateMany and deleteMany
Count(n) == <<[count |-> n]>>

\* prisma.client.create({ data: { ...dto, userId } })
ClientCreate(userId, body) ==
    LET dto == ClientWhitelist(body)
        id == FreshId(ClientIds, clients)
        row == Spread([id |-> id, createdAt |-> ops], Spread(dto, [userId |-> userId]))
    IN  /\ ops < MaxOps
        /\ HasFreshId(ClientIds, clients)
        /\ ops' = ops + 1
        /\ clients' = (id :> row) @@ clients
        /\ last' = Response("client.create", userId, 0, "row", <<row>>)
        /\ UNCHANGED <<users, invoices, nextId, projects, dirExists, files, pending, inflight>>

\* findMany({ where: { userId }, orderBy: { createdAt: 'desc' } })
ClientFindAll(userId) ==
    /\ \E rows \in NewestFirst({clients[c] : c \in {d \in DOMAIN clients :
                                                     clients[d].userId = userId}}) :
           last' = Response("client.findAll", userId, 0, "list", rows)
    /\ UNCHANGED <<users, invoices, nextId, clients, projects, dirExists, files,
                   pending, inflight, ops>>

\* findFirst({ where: { id, userId } }): the row, or null
ClientFindOneResult(userId, id) ==
    IF MatchesIn(clients, id, userId)
    THEN Response("client.findOne", userId, 0, "row", <<clients[id]>>)
    ELSE Response("client.findOne", userId, 0, "null", <<>>)

ClientFindOne(userId, id) ==
    /\ last' = ClientFindOneResult(userId, id)
    /\ UNCHANGED <<users, invoices, nextId, clients, projects, dirExists, files,
                   pending, inflight, ops>>

\* updateMany({ where: { id, userId }, data: dto }): the number of rows changed
ClientUpdate(userId, id, body) ==
    LET dto == ClientWhitelist(body)
    IN  /\ ops < MaxOps
        /\ ops' = ops + 1
        /\ IF MatchesIn(clients, id, userId)
           THEN /\ clients' = [clients EXCEPT ![id] = Spread(clients[id], dto)]
                /\ last' = Response("client.update", userId, 0, "count", Count(1))
           ELSE /\ last' = Response("client.update", userId, 0, "count", Count(0))
                /\ UNCHANGED clients
        /\ UNCHANGED <<users, invoices, nextId, projects, dirExists, files, pending, inflight>>

\* ClientReferenced without Invoice_clientId_fkey: only projects hold a client
ClientReferenced_ProjectsOnly(id) ==
    \E p \in DOMAIN projects : projects[p].clientId = id

\* Project_clientId_fkey and Invoice_clientId_fkey are ON DELETE RESTRICT
ClientReferenced(id) ==
    \/ \E p \in DOMAIN projects : projects[p].clientId = id
    \/ \E i \in DOMAIN invoices : invoices[i].clientId = id

\* deleteMany({ where: { id, userId } }): the number of rows deleted
ClientRemove(userId, id) ==
    /\ ops < MaxOps
    /\ ops' = ops + 1
    /\ IF ~MatchesIn(clients, id, userId)
       THEN /\ last' = Response("client.remove", userId, 0, "count", Count(0))
            /\ UNCHANGED clients
       ELSE IF ClientReferenced(id)
       THEN /\ last' = Response("client.remove", userId, 0, "P2003", <<>>)
            /\ UNCHANGED clients
       ELSE /\ clients' = Without(clients, id)
            /\ last' = Response("client.remove", userId, 0, "count", Count(1))
    /\ UNCHANGED <<users, invoices, nextId, projects, dirExists, files, pending, inflight>>

---------------------------------------------------------------------------
(* ProjectService *)

\* the decorated properties of CreateProjectDto (UpdateProjectDto is its PartialType)
ProjectDtoFields == {"title", "description", "clientId", "status"}

ProjectWhitelist(body) == [k \in DOMAIN body \cap ProjectDtoFields |-> body[k]]

\* include: { client: true }
IncludeClient(row) == Spread(row, [client |-> clients[row.clientId]])

\* prisma.project.create({ data: { ...dto, userId } }): Project_clientId_fkey
\* asks for a client with that id, of whatever user
ProjectCreate(userId, body) ==
    LET dto == ProjectWhitelist(body)
        id == FreshId(ProjectIds, projects)
        row == Spread([id |-> id, createdAt |-> ops], Spread(dto, [userId |-> userId]))
    IN  /\ ops < MaxOps
        /\ HasFreshId(ProjectIds, projects)
        /\ ops' = ops + 1
        /\ IF row.clientId \in DOMAIN clients
           THEN /\ projects' = (id :> row) @@ projects
                /\ last' = Response("project.create", userId, 0, "row", <<row>>)
           ELSE /\ last' = Response("project.create", userId, 0, "P2003", <<>>)
                /\ UNCHANGED projects
        /\ UNCHANGED <<users, invoices, nextId, clients, dirExists, files, pending, inflight>>

\* findMany({ where: { userId }, include, orderBy: { createdAt: 'desc' } })
ProjectFindAll(userId) ==
    /\ \E rows \in NewestFirst({IncludeClient(projects[q]) :
                                    q \in {d \in DOMAIN projects :
                                               projects[d].userId = userId}}) :
           last' = Response("project.findAll", userId, 0, "list", rows)
    /\ UNCHANGED <<users, invoices, nextId, clients, projects, dirExists, files,
                   pending, inflight, ops>>

\* findFirst({ where: { id, userId }, include }): the row, or null
ProjectFindOneResult(userId, id) ==
    IF MatchesIn(projects, id, userId)
    THEN Response("project.findOne", userId, 0, "row", <<IncludeClient(projects[id])>>)
    ELSE Response("project.findOne", userId, 0, "null", <<>>)

ProjectFindOne(userId, id) ==
    /\ last' = ProjectFindOneResult(userId, id)
    /\ UNCHANGED <<users, invoices, nextId, clients, projects, dirExists, files,
                   pending, inflight, ops>>

\* updateMany({ where: { id, userId }, data: dto }): the number of rows changed
ProjectUpdate(userId, id, body) ==
    LET dto == ProjectWhitelist(body)
        row == Spread(projects[id], dto)
    IN  /\ ops < MaxOps
        /\ ops' = ops + 1
        /\ IF ~MatchesIn(projects, id, userId)
           THEN /\ last' = Response("project.update", userId, 0, "count", Count(0))
                /\ UNCHANGED projects
           ELSE IF row.clientId \notin DOMAIN clients
           THEN /\ last' = Response("project.update", userId, 0, "P2003", <<>>)
                /\ UNCHANGED projects
           ELSE /\ projects' = [projects EXCEPT ![id] = row]
                /\ last' = Response("project.update", userId, 0, "count", Count(1))
        /\ UNCHANGED <<users, invoices, nextId, clients, dirExists, files, pending, inflight>>

\* Invoice_projectId_fkey is ON DELETE SET NULL
SetNullProject(id) ==
    [i \in DOMAIN invoices |->
        IF invoices[i].projectId = id
        THEN [invoices[i] EXCEPT !.projectId = NullStr]
        ELSE invoices[i]]

\* deleteMany({ where: { id, userId } }): the number of rows deleted
ProjectRemove(userId, id) ==
    /\ ops < MaxOps
    /\ ops' = ops + 1
    /\ IF MatchesIn(projects, id, userId)
       THEN /\ projects' = Without(projects, id)
            /\ invoices' = SetNullProject(id)
            /\ last' = Response("project.remove", userId, 0, "count", Count(1))
       ELSE /\ last' = Response("project.remove", userId, 0, "count", Count(0))
            /\ UNCHANGED <<projects, invoices>>
    /\ UNCHANGED <<users, nextId, clients, dirExists, files, pending, inflight>>

---------------------------------------------------------------------------
(* AuthService *)

\* bcrypt.hash(password, 12) and bcrypt.compare(password, hash); the salt is
\* left out: compare accepts the password the hash was made from and no other
BcryptHash(password) == <<"$2b$12$", password>>
BcryptCompare(password, hash) == hash = BcryptHash(password)

\* findUnique({ where: { email } }): the rows with that email, at most one
ByEmail(email) == {users[u] : u \in {v \in DOMAIN users : users[v].email = email}}

\* signToken(userId, email): the payload of the JWT
SignToken(userId, email) == <<[sub |-> userId, email |-> email]>>

\* new BadRequestException(message)
BadRequest(message) == <<[message |-> message]>>

\* the users registered before the run, the callers of the other services
RegisteredUsers ==
    ( "u1" :> [id |-> "u1", email |-> "a@x", password |-> BcryptHash("pw1"),
               role |-> "user"] )
    @@ ( "u2" :> [id |-> "u2", email |-> "b@x", password |-> BcryptHash("pw2"),
                  role |-> "user"] )

\* Signup without User_email_key: the insert succeeds whatever the email
Signup_NoUnique(email, password) ==
    LET id == FreshId(UserIds, users)
        user == [id |-> id, email |-> email, password |-> BcryptHash(password),
                 role |-> "user"]
    IN  /\ ops < MaxOps
        /\ HasFreshId(UserIds, users)
        /\ ops' = ops + 1
        /\ users' = (id :> user) @@ users
        /\ last' = Response("signup", email, 0, "token", SignToken(user.id, user.email))
        /\ UNCHANGED <<invoices, nextId, clients, projects, dirExists, files,
                       pending, inflight>>

\* prisma.user.create in a try: whatever it throws (User_email_key) becomes
\* BadRequestException('Email already exists')
Signup(email, password) ==
    LET id == FreshId(UserIds, users)
        user == [id |-> id, email |-> email, password |-> BcryptHash(password),
                 role |-> "user"]
    IN  /\ ops < MaxOps
        /\ HasFreshId(UserIds, users)
        /\ ops' = ops + 1
        /\ IF ByEmail(email) = {}
           THEN /\ users' = (id :> user) @@ users
                /\ last' = Response("signup", email, 0, "token",
                                    SignToken(user.id, user.email))
           ELSE /\ last' = Response("signup", email, 0, "BadRequest",
                                    BadRequest("Email already exists"))
                /\ UNCHANGED users
        /\ UNCHANGED <<invoices, nextId, clients, projects, dirExists, files,
                       pending, inflight>>

\* SigninResult with a message of its own for an email that is not registered
SigninResult_UserNotFound(email, password) ==
    IF ByEmail(email) = {}
    THEN Response("signin", email, 0, "BadRequest", BadRequest("User not found"))
    ELSE LET user == CHOOSE u \in ByEmail(email) : TRUE
         IN  IF ~BcryptCompare(password, user.password)
             THEN Response("signin", email, 0, "BadRequest",
                           BadRequest("Invalid credentials"))
             ELSE Response("signin", email, 0, "token", SignToken(user.id, user.email))

\* signin: the token, or BadRequestException('Invalid credentials')
SigninResult(email, password) ==
    IF ByEmail(email) = {}
    THEN Response("signin", email, 0, "BadRequest", BadRequest("Invalid credentials"))
    ELSE LET user == CHOOSE u \in ByEmail(email) : TRUE
         IN  IF ~BcryptCompare(password, user.password)
             THEN Response("signin", email, 0, "BadRequest",
                           BadRequest("Invalid credentials"))
             ELSE Response("signin", email, 0, "token", SignToken(user.id, user.email))

Signin(email, password) ==
    /\ last' = SigninResult(email, password)
    /\ UNCHANGED <<users, invoices, nextId, clients, projects, dirExists, files,
                   pending, inflight, ops>>

---------------------------------------------------------------------------
(* UserService *)

\* the payloads a caller may present: the one signToken issues (no role), and
\* payloads with a role
UserPayloads ==
    { [sub |-> "u1", email |-> "a@x"],
      [sub |-> "u1", email |-> "a@x", role |-> "user"],
      [sub |-> "u1", email |-> "a@x", role |-> "guest"],
      [sub |-> "u1", email |-> "a@x", role |-> "admin"] }

\* select: { id, email, createdAt, role }
SelectUser(row) ==
    [k \in {"id", "email", "createdAt", "role"} \cap DOMAIN row |-> row[k]]

\* IsAdmin that turns away the role 'user' only
IsAdmin_NotUser(requestingUser) ==
    ~(Has(requestingUser, "role") /\ requestingUser.role = "user")

\* the negation of requestingUser.role !== 'admin'; the role of a payload
\* that has none is undefined
IsAdmin(requestingUser) ==
    Has(requestingUser, "role") /\ requestingUser.role = "admin"

\* new ForbiddenException(message)
Forbidden(message) == <<[message |-> message]>>

\* findAll(requestingUser): ForbiddenException before any query, or
\* findMany({ select }) with no orderBy
UserFindAll(requestingUser) ==
    /\ IF ~IsAdmin(requestingUser)
       THEN last' = Response("user.findAll", requestingUser.sub, 0, "Forbidden",
                             Forbidden("Only admins can access all users"))
       ELSE \E rows \in Orders({SelectUser(users[u]) : u \in DOMAIN users}) :
                last' = Response("user.findAll", requestingUser.sub, 0, "list", rows)
    /\ UNCHANGED <<users, invoices, nextId, clients, projects, dirExists, files,
                   pending, inflight, ops>>

---------------------------------------------------------------------------
(* InvoiceController: the routes *)

Routes ==
    {<<"POST", "">>, <<"GET", "">>, <<"GET", ":id">>, <<"PATCH", ":id">>,
     <<"DELETE", ":id">>}

\* PATCH /invoices/:id/status { status }: the controller has no such route
\* and the service no updateStatus, so the router answers 404
UpdateStatus(userId, id, status) ==
    /\ <<"PATCH", ":id/status">> \notin Routes
    /\ last' = Response("updateStatus", userId, id, "NoRoute", <<>>)
    /\ UNCHANGED <<users, invoices, nextId, clients, projects, dirExists, files,
                   pending, inflight, ops>>

\* the HTTP status of a response: Nest answers 500 to an exception that is
\* not an HttpException (the Prisma errors), 404 to an unknown route
HttpStatus(resp) ==
    CASE resp.kind \in {"row", "list", "null", "count"} ->
             IF resp.op \in {"create", "client.create", "project.create"}
             THEN 201 ELSE 200
      [] resp.kind \in {"P2025", "P2003"} -> 500
      [] resp.kind = "BadRequest" -> 400
      [] resp.kind = "Forbidden" -> 403
      [] resp.kind = "NoRoute" -> 404
      [] OTHER -> 0

---------------------------------------------------------------------------
(* The system *)

Init ==
    /\ invoices = EmptyObj
    /\ nextId = 1
    /\ users = RegisteredUsers
    /\ clients = ("c1" :> [id |-> "c1", name |-> "Acme", userId |-> "u1",
                           createdAt |-> -1])
    /\ projects = ("p1" :> [id |-> "p1", title |-> "Site", clientId |-> "c1",
                            userId |-> "u1", createdAt |-> -1])
    /\ dirExists \in BOOLEAN
    /\ files = EmptyObj
    /\ pending = {}
    /\ inflight = {}
    /\ last = Response("none", "-", 0, "none", <<>>)
    /\ ops = 0

Next ==
    \/ \E u \in Users, body \in CreateBodies \cup MalformedBodies :
           CreateBegin(u, body)
    \/ \E r \in inflight : CreateWriteBack(r)
    \/ \E w \in pending : StreamFlush(w)
    \/ \E w \in pending : StreamError(w)
    \/ \E u \in Users : FindAll(u)
    \/ \E u \in Users, id \in InvoiceIds : FindOne(u, id)
    \/ \E u \in Users, id \in InvoiceIds, body \in UpdateBodies \cup MalformedUpdateBodies :
           Update(u, id, body)
    \/ \E u \in Users, id \in InvoiceIds : Remove(u, id)
    \/ \E u \in Users, id \in InvoiceIds, s \in Statuses : UpdateStatus(u, id, s)
    \/ \E u \in Users, body \in ClientCreateBodies : ClientCreate(u, body)
    \/ \E u \in Users : ClientFindAll(u)
    \/ \E u \in Users, id \in CrmClientIds : ClientFindOne(u, id)
    \/ \E u \in Users, id \in CrmClientIds, body \in ClientUpdateBodies :
           ClientUpdate(u, id, body)
    \/ \E u \in Users, id \in CrmClientIds : ClientRemove(u, id)
    \/ \E u \in Users, body \in ProjectCreateBodies : ProjectCreate(u, body)
    \/ \E u \in Users : ProjectFindAll(u)
    \/ \E u \in Users, id \in CrmProjectIds : ProjectFindOne(u, id)
    \/ \E u \in Users, id \in CrmProjectIds, body \in ProjectUpdateBodies :
           ProjectUpdate(u, id, body)
    \/ \E u \in Users, id \in CrmProjectIds : ProjectRemove(u, id)
    \/ \E email \in Emails, password \in Passwords : Signup(email, password)
    \/ \E email \in Emails, password \in Passwords : Signin(email, password)
    \/ \E requestingUser \in UserPayloads : UserFindAll(requestingUser)

Spec == Init /\ [][Next]_vars

\* the create requests alone, with their write streams
NextCreate ==
    \/ \E u \in Users, body \in CreateBodies : CreateBegin(u, body)
    \/ \E r \in inflight : CreateWriteBack(r)
    \/ \E w \in pending : StreamFlush(w)
    \/ \E w \in pending : StreamError(w)

SpecCreate == Init /\ [][NextCreate]_vars

\* PdfService.generate on its own, applied to invoices of a few identifiers
NextGenerate ==
    \/ \E invoice \in Snapshots : Generate(invoice)
    \/ \E w \in pending : StreamFlush(w)
    \/ \E w \in pending : StreamError(w)

SpecGenerate == Init /\ [][NextGenerate]_vars

\* the table holds an invoice of u1, created before the run, with its file
EarlierInvoice ==
    Spread(Spread(NewRow(1, -1), CreateData("u1", BaseCreate)), [pdfUrl |-> PdfPath(1)])

InitUpdate ==
    /\ invoices = (1 :> EarlierInvoice)
    /\ nextId = 2
    /\ users = RegisteredUsers
    /\ clients = ("c1" :> [id |-> "c1", name |-> "Acme", userId |-> "u1",
                           createdAt |-> -1])
    /\ projects = ("p1" :> [id |-> "p1", title |-> "Site", clientId |-> "c1",
                            userId |-> "u1", createdAt |-> -1])
    /\ dirExists = TRUE
    /\ files = (PdfPath(1) :> PdfContent(EarlierInvoice))
    /\ pending = {}
    /\ inflight = {}
    /\ last = Response("none", "-", 0, "none", <<>>)
    /\ ops = 0

\* the create requests and the update requests
NextUpdate ==
    \/ \E u \in Users, body \in RateBodies : CreateBegin(u, body)
    \/ \E r \in inflight : CreateWriteBack(r)
    \/ \E w \in pending : StreamFlush(w)
    \/ \E u \in Users, id \in InvoiceIds, body \in UpdateBodies : Update(u, id, body)

SpecUpdate == InitUpdate /\ [][NextUpdate]_vars

\* the database is new: nobody is registered, there is no client and no project
InitAuth ==
    /\ invoices = EmptyObj
    /\ nextId = 1
    /\ users = EmptyObj
    /\ clients = EmptyObj
    /\ projects = EmptyObj
    /\ dirExists \in BOOLEAN
    /\ files = EmptyObj
    /\ pending = {}
    /\ inflight = {}
    /\ last = Response("none", "-", 0, "none", <<>>)
    /\ ops = 0

NextAuth ==
    \/ \E email \in Emails, password \in Passwords : Signup(email, password)
    \/ \E email \in Emails, password \in Passwords : Signin(email, password)

SpecAuth == InitAuth /\ [][NextAuth]_vars

\* the requests about users
NextUsers ==
    \/ \E email \in Emails, password \in Passwords : Signup(email, password)
    \/ \E email \in Emails, password \in Passwords : Signin(email, password)
    \/ \E requestingUser \in UserPayloads : UserFindAll(requestingUser)

SpecUsers == Init /\ [][NextUsers]_vars

\* the create requests that differ by their references
NextReference ==
    \/ \E u \in Users, body \in RefBodies : CreateBegin(u, body)
    \/ \E r \in inflight : CreateWriteBack(r)
    \/ \E w \in pending : StreamFlush(w)
    \/ \E w \in pending : StreamError(w)

SpecReference == Init /\ [][NextReference]_vars

\* the table holds an invoice of u1 for client c1 and project p1, created
\* before the run, with its file
ProjectInvoice ==
    Spread(Spread(NewRow(1, -1),
                  CreateData("u1", Spread(BaseCreate, [projectId |-> "p1"]))),
           [pdfUrl |-> PdfPath(1)])

InitIntegrity ==
    /\ invoices = (1 :> ProjectInvoice)
    /\ nextId = 2
    /\ users = RegisteredUsers
    /\ clients = ("c1" :> [id |-> "c1", name |-> "Acme", userId |-> "u1",
                           createdAt |-> -1])
    /\ projects = ("p1" :> [id |-> "p1", title |-> "Site", clientId |-> "c1",
                            userId |-> "u1", createdAt |-> -1])
    /\ dirExists = TRUE
    /\ files = (PdfPath(1) :> PdfContent(ProjectInvoice))
    /\ pending = {}
    /\ inflight = {}
    /\ last = Response("none", "-", 0, "none", <<>>)
    /\ ops = 0

\* the requests that add, move or delete a reference of an invoice
NextIntegrity ==
    \/ \E u \in Users, body \in RefBodies : CreateBegin(u, body)
    \/ \E r \in inflight : CreateWriteBack(r)
    \/ \E w \in pending : StreamFlush(w)
    \/ \E u \in Users, id \in InvoiceIds, body \in UpdateBodies : Update(u, id, body)
    \/ \E u \in Users, id \in InvoiceIds : Remove(u, id)
    \/ \E u \in Users, id \in CrmClientIds : ClientRemove(u, id)
    \/ \E u \in Users, id \in CrmProjectIds : ProjectRemove(u, id)

SpecIntegrity == InitIntegrity /\ [][NextIntegrity]_vars

\* one kind of create request, and the remove requests
NextRemove ==
    \/ \E u \in Users : CreateBegin(u, BaseCreate)
    \/ \E r \in inflight : CreateWriteBack(r)
    \/ \E w \in pending : StreamFlush(w)
    \/ \E w \in pending : StreamError(w)
    \/ \E u \in Users, id \in InvoiceIds : Remove(u, id)

SpecRemove == Init /\ [][NextRemove]_vars

---------------------------------------------------------------------------
(* The claims *)

\* the NotFound of the specification: a 404 answer
IsNotFound(resp) == HttpStatus(resp) = 404

\* C1: a create that inserts a row stores the amountHT of the body, the tva
\* of the body or 20 when the body has none, and amountTTC = amountHT *
\* (1 + tva / 100), whatever amountTTC the body carries
C1_CreateStoresAmountTTC ==
    [][\A u \in Users, body \in CreateBodies :
          (CreateBegin(u, body) /\ nextId' # nextId) =>
              LET row == invoices'[nextId]
                  tva == IF "tva" \in DOMAIN body THEN body.tva ELSE 20
              IN  /\ row.amountHT = body.amountHT
                  /\ row.tva = tva
                  /\ 100 * row.amountTTC = body.amountHT * (100 + tva)]_vars

\* a create has just stored amountHT = 1000, tva = 20, amountTTC = 1200, and
\* another one a rate of 0
C1_Witness ==
    /\ \E r \in inflight :
          /\ r.invoice.id \in DOMAIN invoices
          /\ invoices[r.invoice.id] = r.invoice
          /\ r.invoice.amountHT = 1000 /\ r.invoice.tva = 20
          /\ r.invoice.amountTTC = 1200
    /\ \E r \in inflight : r.invoice.tva = 0 /\ r.invoice.amountTTC = 1000

\* C2: every stored invoice has amountTTC = amountHT * (1 + tva / 100)
C2_AmountTTCInvariant ==
    \A i \in DOMAIN invoices :
        100 * invoices[i].amountTTC = invoices[i].amountHT * (100 + invoices[i].tva)

\* C3: findOne answers with the invoice when a row has the id and the
\* caller's userId, and with NotFound in every other case
C3_FindOneNotFound ==
    [][\A u \in Users, id \in InvoiceIds :
          FindOne(u, id) =>
              IF id \in DOMAIN invoices /\ invoices[id].userId = u
              THEN last'.kind = "row" /\ last'.rows[1].id = id
              ELSE IsNotFound(last')]_vars

\* C4: a request of user b leaves the invoices of the other users unchanged,
\* returns none of them, and an update or remove of b aimed at an invoice
\* of another user answers NotFound
C4_Isolation ==
    [][\A b \in Users, id \in InvoiceIds :
          LET update == \E body \in UpdateBodies : Update(b, id, body)
              request ==
                  \/ update \/ Remove(b, id) \/ FindOne(b, id) \/ FindAll(b)
                  \/ \E body \in CreateBodies : CreateBegin(b, body)
                  \/ \E r \in inflight : r.userId = b /\ CreateWriteBack(r)
          IN  request =>
                /\ \A i \in DOMAIN invoices :
                      invoices[i].userId # b =>
                          i \in DOMAIN invoices' /\ invoices'[i] = invoices[i]
                /\ last' # last =>
                      \A k \in 1 .. Len(last'.rows) : last'.rows[k].userId = b
                /\ ( /\ update \/ Remove(b, id)
                     /\ id \in DOMAIN invoices
                     /\ invoices[id].userId # b ) => IsNotFound(last')]_vars

\* C5: an update whose id and owner match no row changes no row and answers
\* NotFound
C5_UpdateNoMatchNotFound ==
    [][\A u \in Users, id \in InvoiceIds, body \in UpdateBodies :
          (Update(u, id, body) /\ ~(id \in DOMAIN invoices /\ invoices[id].userId = u))
              => invoices' = invoices /\ IsNotFound(last')]_vars

\* C6: findAll returns exactly the invoices of the caller, the newest first
C6_FindAllNewestFirst ==
    [][\A u \in Users :
          FindAll(u) =>
              /\ last'.kind = "list"
              /\ {last'.rows[k].id : k \in 1 .. Len(last'.rows)}
                     = {i \in DOMAIN invoices : invoices[i].userId = u}
              /\ Len(last'.rows)
                     = Cardinality({i \in DOMAIN invoices : invoices[i].userId = u})
              /\ \A j, k \in 1 .. Len(last'.rows) :
                     j < k => last'.rows[j].createdAt >= last'.rows[k].createdAt]_vars

\* C7: create stores the status of the body, or DRAFT when the body has none
C7_CreateStoresStatus ==
    [][\A u \in Users, body \in CreateBodies :
          (CreateBegin(u, body) /\ nextId' # nextId) =>
              invoices'[nextId].status =
                  IF "status" \in DOMAIN body THEN body.status ELSE "DRAFT"]_vars

\* C8: when create answers with the invoice, the stored row belongs to the
\* caller, its pdfUrl is the one returned, it is the path invoice-<id>.pdf,
\* and the file is there
C8_CreateLeavesFile ==
    [][\A r \in inflight :
          (CreateWriteBack(r) /\ last'.kind = "row") =>
              LET id == r.invoice.id
              IN  /\ invoices'[id].userId = r.userId
                  /\ invoices'[id].pdfUrl # NullPath
                  /\ invoices'[id].pdfUrl = last'.rows[1].pdfUrl
                  /\ invoices'[id].pdfUrl = <<"invoices", "invoice-", id, ".pdf">>
                  /\ invoices'[id].pdfUrl \in DOMAIN files']_vars

\* C9: when an update that succeeds changes title, description, amountHT or
\* tva, the PDF is generated again from the updated row and pdfUrl is its
\* path: the file at pdfUrl shows the title, amountHT, tva and amountTTC of
\* the updated row, or the stream that writes them is open
C9_UpdateRegeneratesPdf ==
    [][\A u \in Users, id \in InvoiceIds, body \in UpdateBodies :
          ( /\ Update(u, id, body)
            /\ last'.kind = "row"
            /\ \E f \in {"title", "description", "amountHT", "tva"} :
                   invoices'[id][f] # invoices[id][f] )
              => LET row == invoices'[id]
                     shown == [title |-> row.title, amountHT |-> row.amountHT,
                               tva |-> row.tva, amountTTC |-> row.amountTTC,
                               date |-> Today]
                 IN  /\ row.pdfUrl = <<"invoices", "invoice-", id, ".pdf">>
                     /\ \/ [path |-> row.pdfUrl, content |-> shown] \in pending'
                        \/ /\ row.pdfUrl \in DOMAIN files'
                           /\ files'[row.pdfUrl] = shown]_vars

\* C10: updateStatus on an invoice of the caller stores the status asked
\* for, whatever the status before
C10_UpdateStatusStores ==
    [][\A u \in Users, id \in InvoiceIds, s \in Statuses :
          (UpdateStatus(u, id, s) /\ id \in DOMAIN invoices /\ invoices[id].userId = u)
              => invoices'[id].status = s]_vars

\* C11: updateStatus on an invoice of the caller changes the status of that
\* invoice and nothing else: its other fields, the other invoices and the
\* files stay as they were, and no PDF generation is started
C11_UpdateStatusOnlyStatus ==
    [][\A u \in Users, id \in InvoiceIds, s \in Statuses :
          (UpdateStatus(u, id, s) /\ id \in DOMAIN invoices /\ invoices[id].userId = u)
              => /\ invoices' = [invoices EXCEPT ![id].status = s]
                 /\ files' = files
                 /\ pending' = pending]_vars

\* C12: after a remove that succeeds on an invoice of the caller whose pdfUrl
\* is set, the row is gone and there is no file at that pdfUrl
C12_RemoveDeletesRowAndFile ==
    [][\A u \in Users, id \in InvoiceIds :
          ( /\ Remove(u, id)
            /\ id \in DOMAIN invoices
            /\ invoices[id].userId = u
            /\ invoices[id].pdfUrl # NullPath
            /\ last'.kind = "row" )
              => /\ id \notin DOMAIN invoices'
                 /\ invoices[id].pdfUrl \notin DOMAIN files']_vars

\* C13: a remove on an invoice of the caller whose pdfUrl is set while no
\* file is at that path deletes the row and answers with success
C13_RemoveSucceedsWithoutFile ==
    [][\A u \in Users, id \in InvoiceIds :
          ( /\ Remove(u, id)
            /\ id \in DOMAIN invoices
            /\ invoices[id].userId = u
            /\ invoices[id].pdfUrl # NullPath
            /\ invoices[id].pdfUrl \notin DOMAIN files )
              => /\ id \notin DOMAIN invoices'
                 /\ last'.kind = "row"
                 /\ HttpStatus(last') = 200]_vars

\* a remove has just deleted a row whose pdfUrl was set, in a run where the
\* directory is missing, so that the file was never written
C13_Witness ==
    /\ ~dirExists
    /\ last.op = "remove"
    /\ last.kind = "row"
    /\ last.rows[1].pdfUrl # NullPath
    /\ last.rows[1].pdfUrl \notin DOMAIN files
    /\ last.id \notin DOMAIN invoices

\* C14: generate returns the path invoice-<id>.pdf, a function of the
\* identifier alone; a stream that is flushed replaces the content at its path
\* by its own and adds no other file; and in every state no identifier has
\* two files
C14_GenerateOnePathPerId ==
    /\ [][\A invoice \in Snapshots :
             Generate(invoice) =>
                 /\ last'.rows[1].pdfUrl = <<"invoices", "invoice-", invoice.id, ".pdf">>
                 /\ \E w \in pending' :
                        /\ w.path = last'.rows[1].pdfUrl
                        /\ w.content.title = invoice.title
                        /\ w.content.amountHT = invoice.amountHT]_vars
    /\ [][\A w \in pending :
             StreamFlush(w) =>
                 /\ files'[w.path] = w.content
                 /\ DOMAIN files' = DOMAIN files \cup {w.path}
                 /\ \A q \in DOMAIN files \ {w.path} : files'[q] = files[q]]_vars
    /\ [](\A p, q \in DOMAIN files : p[3] = q[3] => p = q)

\* generate has been called twice for invoice 1: the file of the first call
\* (title A) is on disk, it is the only file, and the stream of the second
\* call (title B) is open on the same path
C14_Witness ==
    /\ ops = 2
    /\ last.op = "generate"
    /\ last.id = 1
    /\ DOMAIN files = {<<"invoices", "invoice-", 1, ".pdf">>}
    /\ files[<<"invoices", "invoice-", 1, ".pdf">>].title = "A"
    /\ \E w \in pending :
           /\ w.path = <<"invoices", "invoice-", 1, ".pdf">>
           /\ w.content.title = "B"

\* C15: in every state each invoice references a client of its own user and,
\* when it has a project, a project of its own user, and each project
\* references a client of its own user
C15_CrossOwnership ==
    /\ \A i \in DOMAIN invoices :
           /\ invoices[i].clientId \in DOMAIN clients
           /\ clients[invoices[i].clientId].userId = invoices[i].userId
           /\ invoices[i].projectId # NullStr =>
                  /\ invoices[i].projectId \in DOMAIN projects
                  /\ projects[invoices[i].projectId].userId = invoices[i].userId
    /\ \A q \in DOMAIN projects :
           /\ projects[q].clientId \in DOMAIN clients
           /\ clients[projects[q].clientId].userId = projects[q].userId

\* C16: a create or an update whose body is malformed is answered with a
\* validation error, and writes no row, starts no PDF generation and leaves
\* the files as they were
C16_MalformedRejected ==
    [][\A u \in Users :
          LET malformed ==
                  \/ \E body \in MalformedBodies : CreateBegin(u, body)
                  \/ \E id \in InvoiceIds, body \in MalformedUpdateBodies :
                         Update(u, id, body)
          IN  malformed =>
                  /\ last'.kind = "BadRequest"
                  /\ invoices' = invoices
                  /\ pending' = pending
                  /\ files' = files]_vars

C18_CrmIsolation ==
    [][\A b \in Users :
          LET noClient(id) == ~(id \in DOMAIN clients /\ clients[id].userId = b)
              noProject(id) == ~(id \in DOMAIN projects /\ projects[id].userId = b)
              nothing == /\ clients' = clients
                         /\ projects' = projects
                         /\ invoices' = invoices
              zero == last'.kind = "count" /\ last'.rows = <<[count |-> 0]>>
              null == last'.kind = "null" /\ last'.rows = <<>>
              request ==
                  \/ \E body \in ClientCreateBodies : ClientCreate(b, body)
                  \/ \E body \in ProjectCreateBodies : ProjectCreate(b, body)
                  \/ ClientFindAll(b) \/ ProjectFindAll(b)
                  \/ \E id \in CrmClientIds :
                         \/ ClientFindOne(b, id) \/ ClientRemove(b, id)
                         \/ \E body \in ClientUpdateBodies : ClientUpdate(b, id, body)
                  \/ \E id \in CrmProjectIds :
                         \/ ProjectFindOne(b, id) \/ ProjectRemove(b, id)
                         \/ \E body \in ProjectUpdateBodies : ProjectUpdate(b, id, body)
          IN  /\ \A id \in CrmClientIds :
                     noClient(id) =>
                         /\ ClientFindOne(b, id) => null /\ nothing
                         /\ ClientRemove(b, id) => zero /\ nothing
                         /\ (\E body \in ClientUpdateBodies : ClientUpdate(b, id, body))
                                => zero /\ nothing
              /\ \A id \in CrmProjectIds :
                     noProject(id) =>
                         /\ ProjectFindOne(b, id) => null /\ nothing
                         /\ ProjectRemove(b, id) => zero /\ nothing
                         /\ (\E body \in ProjectUpdateBodies : ProjectUpdate(b, id, body))
                                => zero /\ nothing
              /\ request =>
                     /\ \A c \in DOMAIN clients :
                            clients[c].userId # b =>
                                c \in DOMAIN clients' /\ clients'[c] = clients[c]
                     /\ \A q \in DOMAIN projects :
                            projects[q].userId # b =>
                                q \in DOMAIN projects' /\ projects'[q] = projects[q]
                     /\ last'.kind \in {"row", "list"} =>
                            \A k \in 1 .. Len(last'.rows) :
                                /\ last'.rows[k].userId = b
                                /\ "client" \in DOMAIN last'.rows[k] =>
                                       last'.rows[k].client.userId = b]_vars

\* C19: a signin with an email that is not registered and a signin with a
\* registered email and another password than the one registered get the same
\* answer, BadRequestException('Invalid credentials'), and no token; the
\* table of users is not changed
C19_SigninSameError ==
    [][\A email \in Emails, password \in Passwords :
          LET known == \E u \in DOMAIN users : users[u].email = email
              right == \E u \in DOMAIN users :
                           /\ users[u].email = email
                           /\ BcryptCompare(password, users[u].password)
          IN  (Signin(email, password) /\ (~known \/ ~right)) =>
                  /\ last'.kind = "BadRequest"
                  /\ last'.rows = <<[message |-> "Invalid credentials"]>>
                  /\ users' = users]_vars

\* a signin with a registered email and a wrong password has just been
\* refused, while another email is not registered
C19_Witness ==
    /\ last.op = "signin"
    /\ last.kind = "BadRequest"
    /\ \E u \in DOMAIN users : users[u].email = last.user
    /\ \E email \in Emails : \A u \in DOMAIN users : users[u].email # email

\* C20: when the generation of the PDF of a new invoice fails (its file is
\* not written and its stream cannot write it), create does not answer with
\* the invoice, the row stays in the table and its pdfUrl stays null
C20_FailedGenerationNoPdfUrl ==
    [][\A r \in inflight :
          LET id == r.invoice.id
              generated ==
                  \/ r.pdfPath \in DOMAIN files
                  \/ dirExists /\ \E w \in pending : w.path = r.pdfPath
          IN  (CreateWriteBack(r) /\ id \in DOMAIN invoices /\ ~generated) =>
                  /\ last'.kind # "row"
                  /\ id \in DOMAIN invoices'
                  /\ invoices'[id].pdfUrl = NullPath]_vars

\* C21: when create answers with the invoice, the write it started is over:
\* the file at the returned pdfUrl holds the document of that invoice, and no
\* stream is still open on that path
C21_WritesDoneAtResponse ==
    [][\A r \in inflight :
          (CreateWriteBack(r) /\ last'.kind = "row") =>
              LET path == last'.rows[1].pdfUrl
              IN  /\ path \in DOMAIN files'
                  /\ files'[path].title = r.invoice.title
                  /\ files'[path].amountHT = r.invoice.amountHT
                  /\ files'[path].amountTTC = r.invoice.amountTTC
                  /\ \A w \in pending' : w.path # path]_vars

\* the InvalidReference of the specification: the foreign-key error of the
\* database, which the request fails with
IsInvalidReference(resp) == resp.kind = "P2003"

\* C22: a create whose clientId, or whose projectId, is the id of no row
\* fails with InvalidReference, inserts no invoice, opens no stream and
\* writes no file
C22_CreateInvalidReference ==
    [][\A u \in Users, body \in RefBodies :
          ( /\ CreateBegin(u, body)
            /\ \/ body.clientId \notin DOMAIN clients
               \/ "projectId" \in DOMAIN body /\ body.projectId \notin DOMAIN projects )
              => /\ IsInvalidReference(last')
                 /\ last'.op = "create"
                 /\ invoices' = invoices
                 /\ nextId' = nextId
                 /\ inflight' = inflight
                 /\ pending' = pending
                 /\ files' = files]_vars

\* a create has just failed on a reference, after another one was accepted:
\* the table holds the one invoice of the first
C22_Witness ==
    /\ ops = 2
    /\ last.op = "create"
    /\ last.kind = "P2003"
    /\ DOMAIN invoices = {1}
    /\ \A w \in pending : w.path = <<"invoices", "invoice-", 1, ".pdf">>
    /\ DOMAIN files \subseteq {<<"invoices", "invoice-", 1, ".pdf">>}

\* C23: generate called while the directory is missing creates the directory,
\* opens the stream on invoice-<id>.pdf and returns that path; its stream
\* does not fail for want of the directory
C23_GenerateCreatesDirectory ==
    /\ [][\A invoice \in Snapshots :
             (Generate(invoice) /\ ~dirExists) =>
                 /\ dirExists'
                 /\ last'.rows[1].pdfUrl = <<"invoices", "invoice-", invoice.id, ".pdf">>
                 /\ \E w \in pending' : w.path = last'.rows[1].pdfUrl]_vars
    /\ [][\A w \in pending : ~StreamError(w)]_vars

\* C24: of two updates of one invoice that both succeed, the one that writes
\* last decides the stored row (its fields are those of its body) and the
\* PDF: the file at pdfUrl shows the row it stored, or the stream that writes
\* it is open
C24_LaterUpdateWins ==
    [][\A u \in Users, id \in InvoiceIds, body \in UpdateBodies :
          ( /\ Update(u, id, body)
            /\ last'.kind = "row"
            /\ last.op = "update" /\ last.kind = "row" /\ last.id = id )
              => LET row == invoices'[id]
                     shown == [title |-> row.title, amountHT |-> row.amountHT,
                               tva |-> row.tva, amountTTC |-> row.amountTTC,
                               date |-> Today]
                 IN  /\ \A f \in DOMAIN body \cap {"title", "description", "clientId",
                                                    "projectId", "amountHT", "tva"} :
                            row[f] = body[f]
                     /\ \/ [path |-> row.pdfUrl, content |-> shown] \in pending'
                        \/ /\ row.pdfUrl \in DOMAIN files'
                           /\ files'[row.pdfUrl] = shown]_vars

\* C25: every invoice names a client and a user that exist, and a project
\* that exists or none; deleting a client that an invoice names changes
\* neither the clients nor the invoices, and is answered with the
\* foreign-key error when the caller owns the client; deleting a project
\* succeeds and leaves the invoices that named it with projectId null, the
\* other invoices as they were
C25_ReferentialIntegrity ==
    /\ [](\A i \in DOMAIN invoices :
             /\ invoices[i].clientId \in DOMAIN clients
             /\ invoices[i].userId \in DOMAIN users
             /\ invoices[i].projectId = NullStr
                    \/ invoices[i].projectId \in DOMAIN projects)
    /\ [][\A u \in Users, id \in CrmClientIds :
             ( /\ ClientRemove(u, id)
               /\ \E i \in DOMAIN invoices : invoices[i].clientId = id )
                 => /\ clients' = clients
                    /\ invoices' = invoices
                    /\ clients[id].userId = u => IsInvalidReference(last')]_vars
    /\ [][\A u \in Users, id \in CrmProjectIds :
             ( /\ ProjectRemove(u, id)
               /\ MatchesIn(projects, id, u) )
                 => /\ last'.rows = Count(1)
                    /\ id \notin DOMAIN projects'
                    /\ DOMAIN invoices' = DOMAIN invoices
                    /\ \A i \in DOMAIN invoices :
                           invoices'[i] =
                               IF invoices[i].projectId = id
                               THEN [invoices[i] EXCEPT !.projectId = NullStr]
                               ELSE invoices[i]]_vars

\* the project of invoice 1 was deleted, which left the invoice without
\* project, and the deletion of its client was then refused
C25_Witness ==
    /\ last.op = "client.remove" /\ last.kind = "P2003"
    /\ projects = EmptyObj
    /\ "c1" \in DOMAIN clients
    /\ 1 \in DOMAIN invoices
    /\ invoices[1].clientId = "c1"
    /\ invoices[1].projectId = NullStr

\* C26: no two users have the same email; a signup with an email that a
\* user has answers BadRequest 'Email already exists', without a token, and
\* leaves the users as they were; a signup with a fresh email adds exactly
\* one user, with that email, changes no other user, and answers with a
\* token whose subject is the id of the new user
C26_EmailsStayUnique ==
    /\ [](\A a, b \in DOMAIN users : users[a].email = users[b].email => a = b)
    /\ [][\A email \in Emails, password \in Passwords :
             Signup(email, password) =>
                 IF \E a \in DOMAIN users : users[a].email = email
                 THEN /\ users' = users
                      /\ last'.kind = "BadRequest"
                      /\ last'.rows = <<[message |-> "Email already exists"]>>
                 ELSE /\ Cardinality(DOMAIN users' \ DOMAIN users) = 1
                      /\ DOMAIN users \subseteq DOMAIN users'
                      /\ \A a \in DOMAIN users : users'[a] = users[a]
                      /\ \A n \in DOMAIN users' \ DOMAIN users :
                             /\ users'[n].email = email
                             /\ users'[n].id = n
                             /\ last'.kind = "token"
                             /\ last'.rows[1].sub = n]_vars

\* a signup was accepted and a second one with the same email refused
C26_Witness ==
    /\ ops = 2
    /\ last.op = "signup" /\ last.kind = "BadRequest"
    /\ Cardinality(DOMAIN users) = 1
    /\ \E a \in DOMAIN users : users[a].email = last.user

\* C27: findAll answers with the list of users, one entry per user and none
\* with a password, exactly when the role of the payload is 'admin'; for any
\* other payload, one without role included, it answers Forbidden (403) and
\* the answer carries nothing of the users
C27_FindAllAdminOnly ==
    [][\A requestingUser \in UserPayloads :
          UserFindAll(requestingUser) =>
              IF "role" \in DOMAIN requestingUser /\ requestingUser.role = "admin"
              THEN /\ last'.kind = "list"
                   /\ Len(last'.rows) = Cardinality(DOMAIN users)
                   /\ \A u \in DOMAIN users :
                          \E k \in 1 .. Len(last'.rows) :
                              /\ last'.rows[k].id = u
                              /\ last'.rows[k].email = users[u].email
                              /\ last'.rows[k].role = users[u].role
                   /\ \A k \in 1 .. Len(last'.rows) :
                          "password" \notin DOMAIN last'.rows[k]
              ELSE /\ last'.kind = "Forbidden"
                   /\ HttpStatus(last') = 403
                   /\ last'.rows = <<[message |-> "Only admins can access all users"]>>]_vars

\* an admin was given the list of three users, the third one signed up
\* during the run
C27_Witness ==
    /\ last.op = "user.findAll" /\ last.kind = "list"
    /\ Len(last.rows) = 3
    /\ \A k \in 1 .. 3 : "password" \notin DOMAIN last.rows[k]
    /\ \A u \in DOMAIN users : "password" \in DOMAIN users[u]

\* C28: once two updates of one invoice have both been applied, in whatever
\* order, the stored amountTTC is the stored amountHT * (1 + stored tva / 100)
C28_AmountTTCAfterTwoUpdates ==
    [][\A u \in Users, id \in InvoiceIds, body \in UpdateBodies :
          ( /\ Update(u, id, body)
            /\ last'.kind = "row"
            /\ last.op = "update" /\ last.kind = "row" /\ last.id = id )
              => 100 * invoices'[id].amountTTC
                     = invoices'[id].amountHT * (100 + invoices'[id].tva)]_vars

\* C29: when no create is in progress and no write stream is open, every
\* file of the storage area is the file of an invoice of the table, whose
\* pdfUrl is the path of that file
C29_NoOrphanPdf ==
    (inflight = {} /\ pending = {}) =>
        \A path \in DOMAIN files :
            \E i \in DOMAIN invoices : invoices[i].pdfUrl = path

\* C30: the userId of an invoice is the user given to the create that
\* inserted it, and no step changes it afterwards, whoever sends an update
\* and whatever its body holds
C30_OwnerImmutable ==
    /\ [][\A u \in Users, body \in RateBodies :
             (CreateBegin(u, body) /\ nextId' # nextId) =>
                 invoices'[nextId].userId = u]_vars
    /\ [][\A i \in DOMAIN invoices \cap DOMAIN invoices' :
             invoices'[i].userId = invoices[i].userId]_vars

\* two updates were sent and the last one, of invoice 1, was accepted; the
\* invoice is as create stored it and is still owned by u1
C30_Witness ==
    /\ ops = 2
    /\ last.op = "update" /\ last.kind = "row" /\ last.id = 1
    /\ nextId = 2
    /\ invoices[1].userId = "u1"
    /\ invoices[1] = EarlierInvoice

====
